---- MODULE Spec2Model ----
(***************************************************************************)
(* copilot-session-logger: a tool server with one operation,               *)
(* save-copilot-session, which renders a transcript through a template and *)
(* writes it to <root>/copilot-session_log/<dd-MM-yyyy>/session_<..>.md.    *)
(*                                                                         *)
(* Text is modelled as a sequence of one-character strings, so that        *)
(* split/join, trim, padStart and path.join are computed character by      *)
(* character.  An optional value (a field that may be undefined) is <<>>    *)
(* when undefined and <<v>> when it carries the value v.                   *)
(***************************************************************************)
EXTENDS Integers, Sequences, FiniteSets, TLC

VARIABLES cli, files, dirs, last, calls, templateWrites, pending, rendering

vars == <<cli, files, dirs, last, calls, templateWrites, pending, rendering>>

----------------------------------------------------------------------------
(* Optional values and JavaScript's ?? and truthiness.                      *)

Undefined == <<>>

Some(v) == <<v>>

\* a ?? b
Nullish(opt, default) == IF opt = Undefined THEN default ELSE opt[1]

\* the truthiness of an optional string: undefined and "" are falsy
Truthy(opt) == opt # Undefined /\ opt[1] # <<>>

----------------------------------------------------------------------------
(* String primitives.                                                      *)

Digits == <<"0", "1", "2", "3", "4", "5", "6", "7", "8", "9">>

IsDigit(c) == \E i \in 1..10 : Digits[i] = c

DigitValue(c) == (CHOOSE i \in 1..10 : Digits[i] = c) - 1

\* String(n) for a non-negative integer
RECURSIVE NumToString(_)
NumToString(n) ==
  IF n < 10 THEN <<Digits[n + 1]>>
  ELSE NumToString(n \div 10) \o <<Digits[(n % 10) + 1]>>

\* s.padStart(len, fill) with a one-character fill
RECURSIVE padStart(_, _, _)
padStart(s, len, fill) ==
  IF Len(s) >= len THEN s ELSE padStart(<<fill>> \o s, len, fill)

IsSpace(c) == c \in {" ", "\n", "\t"}

RECURSIVE trimStart(_)
trimStart(s) ==
  IF s # <<>> /\ IsSpace(s[1]) THEN trimStart(Tail(s)) ELSE s

RECURSIVE trimEnd(_)
trimEnd(s) ==
  IF s # <<>> /\ IsSpace(s[Len(s)]) THEN trimEnd(SubSeq(s, 1, Len(s) - 1)) ELSE s

\* a variant of trim that leaves the text as it is
trimNothing(s) == s

\* s.trim()
trim(s) == trimEnd(trimStart(s))

\* key occurs in s at position i
MatchAt(s, i, key) ==
  /\ i + Len(key) - 1 <= Len(s)
  /\ \A j \in 1..Len(key) : s[i + j - 1] = key[j]

\* the first position at or after i where key occurs in s, 0 if none
FirstMatch(s, i, key) ==
  LET hits == {k \in i..(Len(s) - Len(key) + 1) :
                 s[k] = key[1] /\ MatchAt(s, k, key)}
  IN  IF hits = {} THEN 0 ELSE CHOOSE k \in hits : \A m \in hits : k <= m

\* s.split(key).join(value) for a non-empty key: every non-overlapping
\* occurrence of key, scanning from the left, becomes value
RECURSIVE SplitJoinFrom(_, _, _, _)
SplitJoinFrom(s, i, key, value) ==
  LET k == FirstMatch(s, i, key)
  IN  IF k = 0 THEN SubSeq(s, i, Len(s))
      ELSE SubSeq(s, i, k - 1) \o value
             \o SplitJoinFrom(s, k + Len(key), key, value)

SplitJoin(s, key, value) == SplitJoinFrom(s, 1, key, value)

----------------------------------------------------------------------------
(* path.join and path.basename on POSIX paths that are already normalised. *)

Sep == "/"

pathJoin(a, b) == IF a = <<>> THEN b ELSE a \o <<Sep>> \o b

RECURSIVE StripTrailingSep(_)
StripTrailingSep(p) ==
  IF Len(p) > 1 /\ p[Len(p)] = Sep THEN StripTrailingSep(SubSeq(p, 1, Len(p) - 1))
  ELSE p

RECURSIVE AfterLastSep(_)
AfterLastSep(p) ==
  IF \E i \in 1..Len(p) : p[i] = Sep
  THEN AfterLastSep(SubSeq(p, (CHOOSE i \in 1..Len(p) : p[i] = Sep) + 1, Len(p)))
  ELSE p

pathBasename(p) == AfterLastSep(StripTrailingSep(p))

\* the directory a path lives in
pathDirname(p) ==
  LET idx == {i \in 1..Len(p) : p[i] = Sep}
  IN  IF idx = {} THEN <<>>
      ELSE LET k == CHOOSE i \in idx : \A j \in idx : j <= i
           IN  IF k = 1 THEN <<Sep>> ELSE SubSeq(p, 1, k - 1)

\* p and every ancestor directory of p (what a recursive mkdir brings about)
Ancestors(p) ==
  {p} \cup {SubSeq(p, 1, i - 1) : i \in {j \in 2..Len(p) : p[j] = Sep}}

----------------------------------------------------------------------------
(* Date: the fields the program reads from a Date object, in local time.   *)
(* month is 0-based as getMonth() returns it.  An Invalid Date (getTime()  *)
(* is NaN) is the record with valid = FALSE.                               *)

InvalidDate == [valid |-> FALSE]

RECURSIVE DigitsValue(_)
DigitsValue(s) ==
  IF s = <<>> THEN 0
  ELSE 10 * DigitsValue(SubSeq(s, 1, Len(s) - 1)) + DigitValue(s[Len(s)])

\* new Date(s) for the strings the model feeds it: a local date-time
\* YYYY-MM-DDTHH:mm:ss.sss is read field by field, anything else is invalid
DateParse(s) ==
  IF /\ Len(s) = 23
     /\ s[5] = "-" /\ s[8] = "-" /\ s[11] = "T"
     /\ s[14] = ":" /\ s[17] = ":" /\ s[20] = "."
     /\ \A i \in (1..23) \ {5, 8, 11, 14, 17, 20} : IsDigit(s[i])
  THEN LET y  == DigitsValue(SubSeq(s, 1, 4))
           mo == DigitsValue(SubSeq(s, 6, 7))
           d  == DigitsValue(SubSeq(s, 9, 10))
           h  == DigitsValue(SubSeq(s, 12, 13))
           mi == DigitsValue(SubSeq(s, 15, 16))
           se == DigitsValue(SubSeq(s, 18, 19))
           ms == DigitsValue(SubSeq(s, 21, 23))
       IN  IF mo \in 1..12 /\ d \in 1..28 /\ h \in 0..23 /\ mi \in 0..59 /\ se \in 0..59
           THEN [valid |-> TRUE, year |-> y, month |-> mo - 1, date |-> d,
                 hours |-> h, minutes |-> mi, seconds |-> se, ms |-> ms]
           ELSE InvalidDate
  ELSE InvalidDate

----------------------------------------------------------------------------
(* Formatting.                                                             *)

pad2(n) == padStart(NumToString(n), 2, "0")

pad3(n) == padStart(NumToString(n), 3, "0")

\* a variant of formatDateFolder that uses getMonth() as it comes (0-based)
formatDateFolderRawMonth(d) ==
  pad2(d.date) \o <<"-">> \o pad2(d.month) \o <<"-">> \o NumToString(d.year)

formatDateFolder(d) ==
  pad2(d.date) \o <<"-">> \o pad2(d.month + 1) \o <<"-">> \o NumToString(d.year)

formatTimeDash(d) ==
  pad2(d.hours) \o <<"-">> \o pad2(d.minutes) \o <<"-">> \o pad2(d.seconds)

formatTimeDashMs(d) == formatTimeDash(d) \o <<"-">> \o pad3(d.ms)

formatTimeColon(d) ==
  pad2(d.hours) \o <<":">> \o pad2(d.minutes) \o <<":">> \o pad2(d.seconds)

----------------------------------------------------------------------------
(* Fixed text of the program.                                              *)

ToolName == "save-copilot-session"

LogDirName == <<"c", "o", "p", "i", "l", "o", "t", "-", "s", "e", "s", "s", "i", "o", "n", "_", "l", "o", "g">>

TemplateName == <<"_", "T", "E", "M", "P", "L", "A", "T", "E", ".", "m", "d">>

SessionPrefix == <<"s", "e", "s", "s", "i", "o", "n", "_">>

SessionSuffix == <<".", "m", "d">>

WorkspaceRootFlag == <<"-", "-", "w", "o", "r", "k", "s", "p", "a", "c", "e", "R", "o", "o", "t">>

TokDATE == <<"{", "{", "D", "A", "T", "E", "}", "}">>

TokTIME_COLON == <<"{", "{", "T", "I", "M", "E", "_", "C", "O", "L", "O", "N", "}", "}">>

TokTIME_DASH == <<"{", "{", "T", "I", "M", "E", "_", "D", "A", "S", "H", "}", "}">>

TokTIME_DASH_MS == <<"{", "{", "T", "I", "M", "E", "_", "D", "A", "S", "H", "_", "M", "S", "}", "}">>

TokWORKSPACE_ROOT == <<"{", "{", "W", "O", "R", "K", "S", "P", "A", "C", "E", "_", "R", "O", "O", "T", "}", "}">>

TokPROJECT_NAME == <<"{", "{", "P", "R", "O", "J", "E", "C", "T", "_", "N", "A", "M", "E", "}", "}">>

TokOS == <<"{", "{", "O", "S", "}", "}">>

TokMODEL == <<"{", "{", "M", "O", "D", "E", "L", "}", "}">>

TokTRANSCRIPT == <<"{", "{", "T", "R", "A", "N", "S", "C", "R", "I", "P", "T", "}", "}">>

ModelName == <<"G", "P", "T", "-", "5", ".", "2">>

\* process.platform of the host the server runs on
platform == <<"l", "i", "n", "u", "x">>

defaultTemplate ==
  <<"#", " ", "C", "o", "p", "i", "l", "o", "t", " ", "c", "h", "a", "t", " ", "s", "e", "s", "s", "i", "o", "n", " ">>
    \o TokDATE \o <<" ">> \o TokTIME_COLON \o <<"\n", "\n">>
    \o <<"#", "#", " ", "C", "o", "n", "v", "e", "r", "s", "a", "t", "i", "o", "n">>
    \o <<"\n", "\n">> \o TokTRANSCRIPT \o <<"\n">>

InvalidSavedAtMessage ==
  <<"Invalid 'savedAt' value. Expected an ISO-8601 datetime string.">>

NoTranscriptMessage ==
  <<"No transcript provided. This tool expects Copilot to pass the full conversation Markdown as 'transcriptMarkdown' when invoking save-copilot-session.">>

UnknownToolMessage(name) == <<"Unknown tool: ", name>>

----------------------------------------------------------------------------
(* The renderer.  replacements is the sequence of <<key, value>> pairs in  *)
(* the order Object.entries yields them (insertion order).                 *)

RECURSIVE applyEntries(_, _)
applyEntries(out, entries) ==
  IF entries = <<>> THEN out
  ELSE applyEntries(SplitJoin(out, entries[1][1], entries[1][2]), Tail(entries))

applyTemplate(template, replacements) == applyEntries(template, replacements)

\* the replacement map saveCopilotSession builds
Replacements(savedAt, workspaceRoot, transcript) ==
  << <<TokDATE, formatDateFolder(savedAt)>>,
     <<TokTIME_COLON, formatTimeColon(savedAt)>>,
     <<TokTIME_DASH, formatTimeDash(savedAt)>>,
     <<TokTIME_DASH_MS, formatTimeDashMs(savedAt)>>,
     <<TokWORKSPACE_ROOT, workspaceRoot>>,
     <<TokPROJECT_NAME, pathBasename(workspaceRoot)>>,
     <<TokOS, platform>>,
     <<TokMODEL, ModelName>>,
     <<TokTRANSCRIPT, transcript>> >>

----------------------------------------------------------------------------
(* The filesystem: files maps each existing file's path to its content,    *)
(* dirs is the set of existing directories.                                *)

\* fs.access(p) succeeds
fileExists(fl, dr, p) == p \in DOMAIN fl \/ p \in dr

\* fs.mkdir(p, {recursive: true}): p and its missing ancestors come to
\* exist; no error if they already do
ensureDir(dr, p) == dr \cup Ancestors(p)

\* fs.writeFile(p, data): creates or replaces the file (its directory exists
\* at both call sites, ensureDir having run before)
writeFile(fl, p, data) ==
  [q \in DOMAIN fl \cup {p} |-> IF q = p THEN data ELSE fl[q]]

\* a variant of loadOrCreateTemplate that writes the default template without
\* looking for an existing one
loadOrCreateTemplateAlwaysWrites(fl, dr, logRoot) ==
  LET templatePath == pathJoin(logRoot, TemplateName)
  IN  [template |-> defaultTemplate,
       files |-> writeFile(fl, templatePath, defaultTemplate),
       writes |-> <<templatePath>>]

\* Returns the template and the files after the call; writes lists the paths
\* handed to fs.writeFile.
loadOrCreateTemplate(fl, dr, logRoot) ==
  LET templatePath == pathJoin(logRoot, TemplateName)
  IN  IF fileExists(fl, dr, templatePath)
      THEN [template |-> fl[templatePath], files |-> fl, writes |-> <<>>]
      ELSE [template |-> defaultTemplate,
            files |-> writeFile(fl, templatePath, defaultTemplate),
            writes |-> <<templatePath>>]

----------------------------------------------------------------------------
(* Startup arguments.                                                      *)

\* argv.slice(2), then the value after the first --workspaceRoot if it is
\* there and truthy
parseCliArgs(argv) ==
  LET args == SubSeq(argv, 3, Len(argv))
      hits == {i \in 1..Len(args) : args[i] = WorkspaceRootFlag}
  IN  IF hits = {} THEN [workspaceRoot |-> Undefined]
      ELSE LET idx == CHOOSE i \in hits : \A j \in hits : i <= j
           IN  IF idx + 1 <= Len(args) /\ args[idx + 1] # <<>>
               THEN [workspaceRoot |-> Some(args[idx + 1])]
               ELSE [workspaceRoot |-> Undefined]

\* process.cwd()
cwd == <<"/", "a">>

----------------------------------------------------------------------------
(* saveCopilotSession(args), run against the files fl and directories dr,  *)
(* with now the value new Date() would return.  The result carries either  *)
(* the field savedPath or the field error, as the code's union type does.  *)

saveCopilotSession(args, now, fl, dr) ==
  LET savedAt == IF Truthy(args.savedAt) THEN DateParse(args.savedAt[1]) ELSE now
  IN
  IF ~savedAt.valid
  THEN [result |-> [error |-> InvalidSavedAtMessage],
        files |-> fl, dirs |-> dr, writes |-> <<>>, templateWrites |-> <<>>,
        replacements |-> <<>>]
  ELSE
    LET workspaceRoot == Nullish(args.workspaceRoot, cwd)
        logRoot == pathJoin(workspaceRoot, LogDirName)
        dateFolder == formatDateFolder(savedAt)
        timeDashMs == formatTimeDashMs(savedAt)
        outDir == pathJoin(logRoot, dateFolder)
        dr1 == ensureDir(dr, outDir)
        baseName == SessionPrefix \o timeDashMs \o SessionSuffix
        outPath == pathJoin(outDir, baseName)
        loaded == loadOrCreateTemplate(fl, dr1, logRoot)
        transcript == trim(Nullish(args.transcriptMarkdown, <<>>))
    IN
    IF transcript = <<>>
    THEN [result |-> [error |-> NoTranscriptMessage],
          files |-> loaded.files, dirs |-> dr1, writes |-> loaded.writes,
          templateWrites |-> loaded.writes, replacements |-> <<>>]
    ELSE
      LET replacements == Replacements(savedAt, workspaceRoot, transcript)
          rendered == applyTemplate(loaded.template, replacements)
      IN  [result |-> [savedPath |-> outPath],
           files |-> writeFile(loaded.files, outPath, rendered),
           dirs |-> dr1, writes |-> loaded.writes \o <<outPath>>,
           templateWrites |-> loaded.writes, replacements |-> replacements]

----------------------------------------------------------------------------
(* The invoke-operation request handler.                                   *)

\* the handler's response for the result of saveCopilotSession
ResponseOf(out) ==
  [response |->
     IF "error" \in DOMAIN out.result
     THEN [text |-> out.result.error, isError |-> TRUE]
     ELSE [text |-> out.result.savedPath, isError |-> FALSE],
   files |-> out.files, dirs |-> out.dirs, writes |-> out.writes,
   templateWrites |-> out.templateWrites, replacements |-> out.replacements]

\* a variant of the handler that serves every operation name
CallToolHandlerAnyName(req, now, cliv, fl, dr) ==
  LET input == req.arguments
      root == Nullish(input.workspaceRoot, Nullish(cliv.workspaceRoot, cwd))
  IN  ResponseOf(saveCopilotSession(
                   [input EXCEPT !.workspaceRoot = Some(root)], now, fl, dr))

\* a variant of the handler that skips the startup override
CallToolHandlerIgnoresCli(req, now, cliv, fl, dr) ==
  IF req.name # ToolName
  THEN [response |-> [text |-> UnknownToolMessage(req.name), isError |-> TRUE],
        files |-> fl, dirs |-> dr, writes |-> <<>>, templateWrites |-> <<>>,
        replacements |-> <<>>]
  ELSE
    LET input == req.arguments
        root == Nullish(input.workspaceRoot, cwd)
    IN  ResponseOf(saveCopilotSession(
                     [input EXCEPT !.workspaceRoot = Some(root)], now, fl, dr))

\* a variant of the handler that does not pass savedAt on
CallToolHandlerDropsSavedAt(req, now, cliv, fl, dr) ==
  IF req.name # ToolName
  THEN [response |-> [text |-> UnknownToolMessage(req.name), isError |-> TRUE],
        files |-> fl, dirs |-> dr, writes |-> <<>>, templateWrites |-> <<>>,
        replacements |-> <<>>]
  ELSE
    LET input == req.arguments
        root == Nullish(input.workspaceRoot, Nullish(cliv.workspaceRoot, cwd))
    IN  ResponseOf(saveCopilotSession(
                     [input EXCEPT !.workspaceRoot = Some(root),
                                   !.savedAt = Undefined], now, fl, dr))

\* CallToolRequestSchema: req is [name, arguments]; cliv is the parsed
\* startup arguments
CallToolHandler(req, now, cliv, fl, dr) ==
  IF req.name # ToolName
  THEN [response |-> [text |-> UnknownToolMessage(req.name), isError |-> TRUE],
        files |-> fl, dirs |-> dr, writes |-> <<>>, templateWrites |-> <<>>,
        replacements |-> <<>>]
  ELSE
    LET input == req.arguments
        root == Nullish(input.workspaceRoot, Nullish(cliv.workspaceRoot, cwd))
        out == saveCopilotSession(
                 [input EXCEPT !.workspaceRoot = Some(root)], now, fl, dr)
    IN  ResponseOf(out)

----------------------------------------------------------------------------
(* Bounds and the inputs the model draws from.                             *)

MaxCalls == 2

NodePath == <<"n", "o", "d", "e">>

ScriptPath == <<"i", "n", "d", "e", "x", ".", "j", "s">>

RootB == <<"/", "b">>

\* a directory whose name spells a placeholder
RootTok == <<"/">> \o TokOS

Argvs ==
  { <<NodePath, ScriptPath>>,
    <<NodePath, ScriptPath, WorkspaceRootFlag, RootB>>,
    <<NodePath, ScriptPath, WorkspaceRootFlag>> }

Roots == {cwd, RootB, RootTok}

\* a template the user put in place before the server started
CustomTemplate == TokWORKSPACE_ROOT \o <<"|">> \o TokTRANSCRIPT

TemplatePathOf(root) == pathJoin(pathJoin(root, LogDirName), TemplateName)

\* the filesystem at startup: no log directory anywhere, or the user's
\* template in place under every root
InitialFiles ==
  { <<>>, [p \in {TemplatePathOf(r) : r \in Roots} |-> CustomTemplate] }

InitialDirs(fl) ==
  UNION {Ancestors(r) : r \in Roots} \cup UNION {Ancestors(pathDirname(p)) : p \in DOMAIN fl}

Transcripts ==
  { Undefined, Some(<<>>), Some(<<" ", "\n">>), Some(<<" ", "h", "\n">>), Some(<<"k">>) }

SavedAtGood == <<"2", "0", "2", "4", "-", "0", "3", "-", "0", "5", "T", "0", "9", ":", "0", "7", ":", "0", "2", ".", "0", "0", "4">>

SavedAtBad == <<"n", "o", "t", "-", "a", "-", "d", "a", "t", "e">>

SavedAts == { Undefined, Some(<<>>), Some(SavedAtBad), Some(SavedAtGood) }

RootArgs == { Undefined, Some(RootTok) }

\* what new Date() may return
Clock ==
  { [valid |-> TRUE, year |-> 2025, month |-> 11, date |-> 25,
     hours |-> 13, minutes |-> 45, seconds |-> 59, ms |-> 45] }

OtherToolName == "list-sessions"

Requests ==
  [name : {ToolName},
   arguments : [transcriptMarkdown : Transcripts, savedAt : SavedAts,
                workspaceRoot : RootArgs]]
  \cup
  [name : {OtherToolName},
   arguments : [transcriptMarkdown : {Undefined, Some(<<"k">>)},
                savedAt : {Undefined, Some(SavedAtGood)},
                workspaceRoot : {Undefined}]]

----------------------------------------------------------------------------
(* The server.  cli is what main() parsed at startup; last is the request  *)
(* answered most recently with its response, the paths it handed to        *)
(* fs.writeFile and the replacement map it rendered with; calls counts the *)
(* invocations; templateWrites counts, per path, the default templates     *)
(* written; pending holds the handler invocations suspended at an await    *)
(* (none while requests are handled one at a time); rendering is the call  *)
(* frame of applyTemplate when the renderer is exercised on its own.       *)

\* how the request before this one ended
Outcome(l) ==
  IF l.kind # "call" THEN "none"
  ELSE IF ~l.response.isError THEN "ok"
  ELSE IF l.request.name # ToolName THEN "unknown"
  ELSE "usage"

NotRendering == [template |-> <<>>, replacements |-> <<>>, out |-> Undefined]

Init ==
  /\ cli \in {parseCliArgs(argv) : argv \in Argvs}
  /\ files \in InitialFiles
  /\ dirs = InitialDirs(files)
  /\ last = [kind |-> "none"]
  /\ calls = 0
  /\ templateWrites = <<>>
  /\ pending = <<>>
  /\ rendering = NotRendering

\* One request handled from arrival to response: the caller sends the next
\* request after it has the response.
CallTool(req, now) ==
  /\ calls < MaxCalls
  /\ LET out == CallToolHandler(req, now, cli, files, dirs)
         written == {out.templateWrites[i] : i \in 1..Len(out.templateWrites)}
     IN  /\ files' = out.files
         /\ dirs' = out.dirs
         /\ last' = [kind |-> "call", request |-> req, now |-> now,
                     response |-> out.response, writes |-> out.writes,
                     replacements |-> out.replacements, prev |-> Outcome(last)]
         /\ templateWrites' =
              [p \in DOMAIN templateWrites \cup written |->
                 (IF p \in DOMAIN templateWrites THEN templateWrites[p] ELSE 0)
                 + (IF p \in written THEN 1 ELSE 0)]
  /\ calls' = calls + 1
  /\ UNCHANGED <<cli, pending, rendering>>

Next ==
  \E req \in Requests, now \in Clock : CallTool(req, now)

Spec == Init /\ [][Next]_vars

----------------------------------------------------------------------------
(* The renderer on its own: applyTemplate applied to a template and a       *)
(* replacement map of the kind saveCopilotSession builds.                  *)

RootTranscriptTok == <<"/", "w", "/">> \o TokTRANSCRIPT

RenderTemplates ==
  { defaultTemplate,
    CustomTemplate,
    TokPROJECT_NAME \o <<" ">> \o TokOS \o <<" ">> \o TokMODEL,
    TokTRANSCRIPT \o <<" ">> \o TokDATE \o <<" ">> \o TokTRANSCRIPT,
    TokTIME_DASH_MS \o TokTIME_DASH \o <<"{", "{", "X", "}", "}">> }

RenderRoots == {cwd, RootTok, RootTranscriptTok}

RenderTranscripts == { <<"h">>, TokDATE, TokTRANSCRIPT \o <<"!">> }

RenderTimes == Clock \cup {DateParse(SavedAtGood)}

RenderMaps ==
  { Replacements(ts, root, tr) :
      ts \in RenderTimes, root \in RenderRoots, tr \in RenderTranscripts }

InitRender ==
  /\ rendering \in [template : RenderTemplates, replacements : RenderMaps,
                     out : {Undefined}]
  /\ cli = [workspaceRoot |-> Undefined]
  /\ files = <<>>
  /\ dirs = {}
  /\ last = [kind |-> "none"]
  /\ calls = 0
  /\ templateWrites = <<>>
  /\ pending = <<>>

Render ==
  /\ rendering.out = Undefined
  /\ rendering' =
       [rendering EXCEPT
          !.out = Some(applyTemplate(rendering.template, rendering.replacements))]
  /\ UNCHANGED <<cli, files, dirs, last, calls, templateWrites, pending>>

SpecRender == InitRender /\ [][Render]_vars

----------------------------------------------------------------------------
(* The handler as the asynchronous function it is.  An invocation starts   *)
(* when its request arrives and is suspended at each await of a filesystem *)
(* call: fs.mkdir, fs.access, fs.readFile or fs.writeFile of the template, *)
(* fs.writeFile of the session.  Nothing in the handler makes a request    *)
(* wait for an earlier invocation, so up to MaxInFlight invocations are    *)
(* suspended at once and their steps interleave.  A frame of pending keeps *)
(* the invocation's request, its clock reading, the await it is suspended  *)
(* at and its locals.                                                      *)

MaxInFlight == 2

AsyncRequests ==
  [name : {ToolName},
   arguments : [transcriptMarkdown : {Undefined, Some(<<"k">>)},
                savedAt : {Undefined, Some(SavedAtGood), Some(SavedAtBad)},
                workspaceRoot : {Undefined}]]
  \cup
  [name : {OtherToolName},
   arguments : [transcriptMarkdown : {Some(<<"k">>)}, savedAt : {Undefined},
                workspaceRoot : {Undefined}]]

\* the locals saveCopilotSession computes before its first await
FrameRoot(f) ==
  Nullish(f.request.arguments.workspaceRoot, Nullish(cli.workspaceRoot, cwd))

FrameSavedAt(f) ==
  IF Truthy(f.request.arguments.savedAt)
  THEN DateParse(f.request.arguments.savedAt[1]) ELSE f.now

FrameLogRoot(f) == pathJoin(FrameRoot(f), LogDirName)

FrameOutDir(f) == pathJoin(FrameLogRoot(f), formatDateFolder(FrameSavedAt(f)))

FrameOutPath(f) ==
  pathJoin(FrameOutDir(f),
           SessionPrefix \o formatTimeDashMs(FrameSavedAt(f)) \o SessionSuffix)

FrameTemplatePath(f) == pathJoin(FrameLogRoot(f), TemplateName)

\* the response leaves the server
Respond(f, response, replacements) ==
  last' = [kind |-> "call", request |-> f.request, now |-> f.now,
           response |-> response, writes |-> f.writes,
           replacements |-> replacements, prev |-> Outcome(last)]

Drop(id) == [i \in DOMAIN pending \ {id} |-> pending[i]]

\* A request arrives and its invocation runs to its first await (or to its
\* response, when it is refused before any filesystem call).
Arrive(req, now) ==
  /\ calls < MaxCalls
  /\ Cardinality(DOMAIN pending) < MaxInFlight
  /\ calls' = calls + 1
  /\ LET f == [request |-> req, now |-> now, pc |-> "mkdir",
               template |-> Undefined, writes |-> <<>>]
         id == CHOOSE i \in 1..MaxInFlight : i \notin DOMAIN pending
     IN  IF req.name # ToolName
         THEN /\ Respond(f, [text |-> UnknownToolMessage(req.name), isError |-> TRUE], <<>>)
              /\ UNCHANGED pending
         ELSE IF ~FrameSavedAt(f).valid
         THEN /\ Respond(f, [text |-> InvalidSavedAtMessage, isError |-> TRUE], <<>>)
              /\ UNCHANGED pending
         ELSE /\ pending' = [i \in DOMAIN pending \cup {id} |->
                               IF i = id THEN f ELSE pending[i]]
              /\ UNCHANGED last
  /\ UNCHANGED <<cli, files, dirs, templateWrites, rendering>>

\* await ensureDir(outDir)
Mkdir(id) ==
  /\ id \in DOMAIN pending /\ pending[id].pc = "mkdir"
  /\ dirs' = ensureDir(dirs, FrameOutDir(pending[id]))
  /\ pending' = [pending EXCEPT ![id].pc = "access"]
  /\ UNCHANGED <<cli, files, last, calls, templateWrites, rendering>>

\* await fileExists(templatePath)
Access(id) ==
  /\ id \in DOMAIN pending /\ pending[id].pc = "access"
  /\ pending' =
       [pending EXCEPT ![id].pc =
          IF fileExists(files, dirs, FrameTemplatePath(pending[id]))
          THEN "readFile" ELSE "writeTemplate"]
  /\ UNCHANGED <<cli, files, dirs, last, calls, templateWrites, rendering>>

\* with the template in hand: the transcript check, then await the write of
\* the session
Continue(id, f) ==
  IF trim(Nullish(f.request.arguments.transcriptMarkdown, <<>>)) = <<>>
  THEN /\ Respond(f, [text |-> NoTranscriptMessage, isError |-> TRUE], <<>>)
       /\ pending' = Drop(id)
  ELSE /\ pending' = [pending EXCEPT ![id] = [f EXCEPT !.pc = "writeSession"]]
       /\ UNCHANGED last

\* return fs.readFile(templatePath)
ReadTemplate(id) ==
  /\ id \in DOMAIN pending /\ pending[id].pc = "readFile"
  /\ Continue(id, [pending[id] EXCEPT
                     !.template = Some(files[FrameTemplatePath(pending[id])])])
  /\ UNCHANGED <<cli, files, dirs, calls, templateWrites, rendering>>

\* await fs.writeFile(templatePath, defaultTemplate)
WriteTemplate(id) ==
  /\ id \in DOMAIN pending /\ pending[id].pc = "writeTemplate"
  /\ LET tp == FrameTemplatePath(pending[id])
     IN  /\ files' = writeFile(files, tp, defaultTemplate)
         /\ templateWrites' =
              [p \in DOMAIN templateWrites \cup {tp} |->
                 (IF p \in DOMAIN templateWrites THEN templateWrites[p] ELSE 0)
                 + (IF p = tp THEN 1 ELSE 0)]
         /\ Continue(id, [pending[id] EXCEPT
                            !.template = Some(defaultTemplate),
                            !.writes = @ \o <<tp>>])
  /\ UNCHANGED <<cli, dirs, calls, rendering>>

\* await fs.writeFile(outPath, rendered), then the response
WriteSession(id) ==
  /\ id \in DOMAIN pending /\ pending[id].pc = "writeSession"
  /\ LET f == pending[id]
         transcript == trim(Nullish(f.request.arguments.transcriptMarkdown, <<>>))
         replacements == Replacements(FrameSavedAt(f), FrameRoot(f), transcript)
         outPath == FrameOutPath(f)
     IN  /\ files' = writeFile(files, outPath, applyTemplate(f.template[1], replacements))
         /\ Respond([f EXCEPT !.writes = @ \o <<outPath>>],
                    [text |-> outPath, isError |-> FALSE], replacements)
  /\ pending' = Drop(id)
  /\ UNCHANGED <<cli, dirs, calls, templateWrites, rendering>>

NextAsync ==
  \/ \E req \in AsyncRequests, now \in Clock : Arrive(req, now)
  \/ \E id \in 1..MaxInFlight : Mkdir(id)
  \/ \E id \in 1..MaxInFlight : Access(id)
  \/ \E id \in 1..MaxInFlight : ReadTemplate(id)
  \/ \E id \in 1..MaxInFlight : WriteTemplate(id)
  \/ \E id \in 1..MaxInFlight : WriteSession(id)

SpecAsync == Init /\ [][NextAsync]_vars

----------------------------------------------------------------------------
(* Vocabulary of the properties.                                           *)

Range(s) == {s[i] : i \in 1..Len(s)}

HasPrefix(s, prefix) == MatchAt(s, 1, prefix)

\* the transcript is absent, empty or nothing but white space
TranscriptMissing(a) ==
  \/ a.transcriptMarkdown = Undefined
  \/ \A i \in 1..Len(a.transcriptMarkdown[1]) : IsSpace(a.transcriptMarkdown[1][i])

\* savedAt is supplied and does not parse as a datetime
SavedAtUnparseable(a) ==
  a.savedAt # Undefined /\ ~DateParse(a.savedAt[1]).valid

\* savedAt is absent or parses as a datetime
SavedAtUsable(a) ==
  a.savedAt = Undefined \/ DateParse(a.savedAt[1]).valid

\* the save timestamp of a request with a usable savedAt
SaveTime(a, now) == IF a.savedAt = Undefined THEN now ELSE DateParse(a.savedAt[1])

\* the workspace root by precedence: per-call argument, startup override,
\* working directory
ExpectedRoot(a) ==
  IF a.workspaceRoot # Undefined THEN a.workspaceRoot[1]
  ELSE IF cli.workspaceRoot # Undefined THEN cli.workspaceRoot[1]
  ELSE cwd

IsTemplatePath(p) == pathBasename(p) = TemplateName

IsSessionPath(p) == HasPrefix(pathBasename(p), SessionPrefix)

SessionFiles(fl) == {p \in DOMAIN fl : IsSessionPath(p)}

\* the files a step created or changed, and the directories it created
ChangedFiles ==
  {p \in DOMAIN files' : p \notin DOMAIN files \/ files'[p] # files[p]}

NewDirs == dirs' \ dirs

FsUnchanged == files' = files /\ dirs' = dirs

TwoDigits(n) == <<Digits[(n \div 10) + 1], Digits[(n % 10) + 1]>>

ThreeDigits(n) == <<Digits[(n \div 100) + 1]>> \o TwoDigits(n % 100)

\* <root>/copilot-session_log/<DD-MM-YYYY>/session_<HH-MM-SS-mmm>.md, the
\* year written in full
ExpectedPath(root, ts) ==
  root \o <<"/">> \o LogDirName \o <<"/">>
    \o TwoDigits(ts.date) \o <<"-">> \o TwoDigits(ts.month + 1) \o <<"-">>
    \o NumToString(ts.year)
    \o <<"/">> \o SessionPrefix
    \o TwoDigits(ts.hours) \o <<"-">> \o TwoDigits(ts.minutes) \o <<"-">>
    \o TwoDigits(ts.seconds) \o <<"-">> \o ThreeDigits(ts.ms)
    \o SessionSuffix

\* the value a replacement map binds to a token
ValueOf(replacements, token) ==
  (CHOOSE e \in Range(replacements) : e[1] = token)[2]

\* Single-pass rendering: the template is scanned once from the left; where
\* a token of the map starts, its value is emitted and the scan resumes
\* after the token; text that came from a value is never scanned.
NextToken(s, i, entries) ==
  LET hits == {k \in i..Len(s) : \E j \in 1..Len(entries) : MatchAt(s, k, entries[j][1])}
  IN  IF hits = {} THEN 0 ELSE CHOOSE k \in hits : \A m \in hits : k <= m

RECURSIVE SinglePassFrom(_, _, _)
SinglePassFrom(s, i, entries) ==
  LET k == NextToken(s, i, entries)
  IN  IF k = 0 THEN SubSeq(s, i, Len(s))
      ELSE LET j == CHOOSE j \in 1..Len(entries) : MatchAt(s, k, entries[j][1])
           IN  SubSeq(s, i, k - 1) \o entries[j][2]
                 \o SinglePassFrom(s, k + Len(entries[j][1]), entries)

SinglePass(template, replacements) == SinglePassFrom(template, 1, replacements)

Reverse(s) == [i \in 1..Len(s) |-> s[Len(s) + 1 - i]]

----------------------------------------------------------------------------
(* C1.  A save-copilot-session request whose transcript is absent, empty   *)
(* or whitespace-only ends in a Failure, never a Success, and writes no    *)
(* session file.                                                           *)

----------------------------------------------------------------------------
(* C2.  A save-copilot-session request whose savedAt is supplied and does  *)
(* not parse as a datetime ends in the Failure naming ISO-8601 and leaves  *)
(* the filesystem unchanged: no directory, no template, no session file.   *)

C2_Refused ==
  /\ last'.response.isError
  /\ last'.response.text = InvalidSavedAtMessage
  /\ FsUnchanged

\* C2 as stated: for every supplied savedAt that does not parse.
C2_OriginalStep ==
  (last'.request.name = ToolName /\ SavedAtUnparseable(last'.request.arguments))
  => C2_Refused

C2_Original == [][C2_OriginalStep]_vars

\* C2 amended: for every savedAt supplied as a non-empty string that does
\* not parse (an empty string is taken as no savedAt at all).
C2_AmendedStep ==
  (/\ last'.request.name = ToolName
   /\ last'.request.arguments.savedAt # Undefined
   /\ last'.request.arguments.savedAt[1] # <<>>
   /\ ~DateParse(last'.request.arguments.savedAt[1]).valid)
  => C2_Refused

C2_Amended == [][C2_AmendedStep]_vars

\* an unparseable savedAt was refused although the transcript was there,
\* after an earlier save
C2_Witness ==
  /\ last.kind = "call" /\ last.request.name = ToolName
  /\ last.request.arguments.savedAt = Some(SavedAtBad)
  /\ last.request.arguments.transcriptMarkdown = Some(<<"k">>)
  /\ last.response.isError /\ last.response.text = InvalidSavedAtMessage
  /\ last.prev = "ok"
  /\ Cardinality(SessionFiles(files)) = 1

----------------------------------------------------------------------------
(* C3.  A save-copilot-session request with an absent or parseable savedAt *)
(* and a transcript that is non-empty after trimming ends in a Success     *)
(* carrying a path P; the template file then exists (the pre-existing one, *)
(* or the default), and the file at P holds that template rendered, in the *)
(* single-pass sense, with the trimmed transcript and the values derived   *)
(* from the save timestamp.                                                *)

C3_Step ==
  LET a == last'.request.arguments
      root == ExpectedRoot(a)
      tp == TemplatePathOf(root)
      tpl == IF tp \in DOMAIN files THEN files[tp] ELSE defaultTemplate
      P == last'.response.text
  IN  (last'.request.name = ToolName /\ SavedAtUsable(a) /\ ~TranscriptMissing(a))
      => /\ ~last'.response.isError
         /\ tp \in DOMAIN files' /\ files'[tp] = tpl
         /\ P \in DOMAIN files'
         /\ files'[P] =
              SinglePass(tpl, Replacements(SaveTime(a, last'.now), root,
                                           trim(a.transcriptMarkdown[1])))

C3_Original == [][C3_Step]_vars

----------------------------------------------------------------------------
(* C4.  The path of a save is                                              *)
(* <root>/copilot-session_log/<DD-MM-YYYY>/session_<HH-MM-SS-mmm>.md with  *)
(* two-digit day, month (1-based), hours, minutes, seconds and three-digit *)
(* milliseconds: a function of the root and the timestamp alone.  A save   *)
(* onto a path that already holds a session replaces its content and       *)
(* touches no other session.                                               *)

C4_Step ==
  ~last'.response.isError
  => LET a == last'.request.arguments
         root == ExpectedRoot(a)
         ts == IF Truthy(a.savedAt) THEN DateParse(a.savedAt[1]) ELSE last'.now
         P == ExpectedPath(root, ts)
     IN  /\ last'.response.text = P
         /\ P \in DOMAIN files'
         /\ files'[P] = applyTemplate(files'[TemplatePathOf(root)], last'.replacements)
         /\ \A q \in SessionFiles(files) \ {P} : q \in DOMAIN files' /\ files'[q] = files[q]
         /\ SessionFiles(files') = SessionFiles(files) \cup {P}

----------------------------------------------------------------------------
(* C5.  The workspace root of an invocation is the per-call argument if    *)
(* supplied, otherwise the startup override if one was set, otherwise the  *)
(* working directory: every filesystem effect of the call lies under       *)
(* <that root>/copilot-session_log, and {{WORKSPACE_ROOT}} is bound to it. *)
(* A per-call argument does not outlive its call.                          *)

C5_Step ==
  last'.request.name = ToolName
  => LET root == ExpectedRoot(last'.request.arguments)
         logRoot == root \o <<"/">> \o LogDirName
     IN  /\ \A p \in ChangedFiles \cup NewDirs : HasPrefix(p, logRoot)
         /\ ~last'.response.isError
            => /\ HasPrefix(last'.response.text, logRoot \o <<"/">>)
               /\ ValueOf(last'.replacements, TokWORKSPACE_ROOT) = root
               /\ ValueOf(last'.replacements, TokPROJECT_NAME) = pathBasename(root)

C5_Theorem == [][C5_Step]_vars

\* after a save under a per-call root, a save without the argument went to
\* the startup override
C5_Witness ==
  /\ calls = 2 /\ last.kind = "call" /\ ~last.response.isError
  /\ last.request.arguments.workspaceRoot = Undefined
  /\ cli.workspaceRoot = Some(RootB)
  /\ HasPrefix(last.response.text, RootB \o <<"/">> \o LogDirName)
  /\ \E p \in SessionFiles(files) : HasPrefix(p, RootTok \o <<"/">> \o LogDirName)

----------------------------------------------------------------------------
(* C6.  A request for any other operation ends in a Failure with the        *)
(* unknown-operation message and leaves the filesystem unchanged, and the  *)
(* server keeps serving: whatever came before, a valid invocation (usable  *)
(* savedAt, transcript present) ends in a Success.                         *)

C6_Step ==
  /\ last'.request.name # ToolName
     => /\ last'.response.isError
        /\ last'.response.text = UnknownToolMessage(last'.request.name)
        /\ FsUnchanged
  /\ (/\ last'.request.name = ToolName
      /\ SavedAtUsable(last'.request.arguments)
      /\ ~TranscriptMissing(last'.request.arguments))
     => /\ ~last'.response.isError
        /\ last'.response.text \in DOMAIN files'

C6_Theorem == [][C6_Step]_vars

\* a save succeeded right after a request for an unknown operation
C6_Witness ==
  /\ last.kind = "call" /\ last.prev = "unknown"
  /\ ~last.response.isError
  /\ last.response.text \in DOMAIN files

----------------------------------------------------------------------------
(* C8.  The template file is written only while it does not exist: an      *)
(* existing _TEMPLATE.md is never written or changed, the default template *)
(* is written at most once per path, and a call that stops after the       *)
(* template load has changed no file but the template.                     *)

C8_Step ==
  /\ \A p \in DOMAIN files :
       IsTemplatePath(p) => files'[p] = files[p] /\ p \notin Range(last'.writes)
  /\ \A p \in Range(last'.writes) :
       IsTemplatePath(p) => p \notin DOMAIN files /\ files'[p] = defaultTemplate
  /\ \A p \in DOMAIN templateWrites' : templateWrites'[p] <= 1
  /\ last'.response.isError
     => ChangedFiles \subseteq
          {TemplatePathOf(ExpectedRoot(last'.request.arguments))}

----------------------------------------------------------------------------
(* C9.  Validation comes before every filesystem step: an invocation that  *)
(* ends in a Failure has left the filesystem unchanged (no directory, no   *)
(* template, no session file).                                             *)

C9_Step == last'.response.isError => FsUnchanged

C9_Original == [][C9_Step]_vars

----------------------------------------------------------------------------
(* C7.  Rendering is single-pass: every token of the original template is  *)
(* replaced once by its value, token-looking text inside a value is left   *)
(* alone, and so the output does not depend on the order in which the      *)
(* tokens are substituted.                                                 *)

C7_Original ==
  rendering.out # Undefined
  => /\ rendering.out[1] = SinglePass(rendering.template, rendering.replacements)
     /\ rendering.out[1] =
          applyTemplate(rendering.template, Reverse(rendering.replacements))

----------------------------------------------------------------------------
(* C10.  One invocation runs to completion, filesystem steps included,     *)
(* before the next is handled: the filesystem steps of two invocations     *)
(* never interleave, so never do two invocations both find the template    *)
(* absent and both write the default template.                             *)

\* C10's conclusion on the state: no template path has had the default
\* template written to it twice.
C10_Original == \A p \in DOMAIN templateWrites : templateWrites[p] <= 1

====
